---- MODULE Spec2Model ----
(***************************************************************************)
(* Model of daily_briefing.py: one batch run of main() loads the seen      *)
(* state, fetches every feed, filters the unseen items, records and saves  *)
(* their keys, builds the HTML digest and mails it.  Runs repeat; the only *)
(* state that survives a run is the state file.                            *)
(*                                                                         *)
(* Abstractions.  A key is the injective encoding of (link, title) that an *)
(* ideal hash gives.  A text is abstracted to `hits`, the set of           *)
(* categories one of whose patterns matches it.  An ISO-8601 UTC string is *)
(* the integer instant it denotes (such strings order as the instants do). *)
(* The three size limits of the program (2000 keys, 40 items per digest,   *)
(* 10 items per section) are scaled down, keeping their order, so that     *)
(* every limit is exceeded by the inputs the model enumerates.             *)
(***************************************************************************)
EXTENDS Integers, Sequences, FiniteSets, TLC

VARIABLES
    stateFile,   \* STATE_FILE on disk: [kind: absent | corrupt | ok, seen: list of keys]
    pc,          \* position of main(): idle, loaded, fetched, saved, done, sent, failed
    error,       \* the call whose exception ended the run, or "none"
    seen,        \* main's local set `seen`
    web,         \* ghost: what the feeds returned to the fetch_all call in progress
    items,       \* main's local `items`
    new_items,   \* main's local `new_items`
    outbox,      \* the html documents passed to send_email in this run
    startFile,   \* ghost: the state file as it was when this run started
    delivered,   \* ghost: keys of the items of every digest the transport accepted
    addOrder,    \* ghost: the keys ever added to `seen`, ordered by latest addition
    runs         \* ghost: the runs started so far

vars == <<stateFile, pc, error, seen, web, items, new_items, outbox,
          startFile, delivered, addOrder, runs>>

----------------------------------------------------------------------------
(* Program constants, scaled. *)

\* save_state keeps state["seen"][-2000:]
SeenCap == 3
\* main keeps new_items[:40]
MaxTotal == 2
\* build_html_report keeps arr[:10] per category
MaxPerCategory == 1

(* Bounds of the model. *)

\* entries all the feeds together return in one run
MaxEntries == 3
\* distinct articles the feeds of the multi-run specification carry
NumLinks == 4
\* runs of the multi-run specification
MaxRuns == 2

----------------------------------------------------------------------------
(* Sequence helpers: Python slicing. *)

Min(a, b) == IF a <= b THEN a ELSE b
Max(a, b) == IF a >= b THEN a ELSE b

\* s[:n]
Take(s, n) == SubSeq(s, 1, Min(n, Len(s)))

\* s[-n:]
LastN(s, n) == SubSeq(s, Max(1, Len(s) - n + 1), Len(s))

Range(s) == {s[i] : i \in 1..Len(s)}

\* every order in which iterating a set can yield its elements
Orderings(S) ==
    {f \in [1..Cardinality(S) -> S] : \A i, j \in 1..Cardinality(S) : f[i] = f[j] => i = j}

----------------------------------------------------------------------------
(* CATEGORIES and the display order. *)

CATEGORIES ==
    << "Regulation & Compliance", "Retail & Channel", "Market & Data",
       "Trend & Consumer", "Brand & Marketing", "Competition Watch" >>

order ==
    << "Regulation & Compliance", "Retail & Channel", "Market & Data",
       "Trend & Consumer", "Brand & Marketing", "Competition Watch", "Other" >>

----------------------------------------------------------------------------
(* norm_dt: a raw date is missing, unparseable, or a local time with an    *)
(* optional UTC offset.                                                    *)

\* the empty string norm_dt returns
Empty == -1
\* the sort key "0000" of an item without a date
Key0000 == 0

RawMissing == [kind |-> "missing", t |-> 0, tz |-> FALSE, off |-> 0]
RawGarbage == [kind |-> "garbage", t |-> 0, tz |-> FALSE, off |-> 0]
\* a parseable date: local time t, at UTC offset off when tz, without tzinfo otherwise
RawDate(t, tz, off) == [kind |-> "date", t |-> t, tz |-> tz, off |-> off]

norm_dt(raw) ==
    IF raw.kind = "missing" THEN Empty
    ELSE IF raw.kind = "garbage" THEN Empty
    ELSE IF ~raw.tz THEN raw.t
    ELSE raw.t - raw.off

\* base of the pairing that stands for sha256(link || title)
KeyBase == 10

stable_key(link, title) == link * KeyBase + title

auto_tag(hits) ==
    LET tags == SelectSeq(CATEGORIES, LAMBDA cat : cat \in hits)
    IN  IF tags # <<>> THEN tags ELSE <<"Other">>

----------------------------------------------------------------------------
(* load_state / save_state *)

Absent == [kind |-> "absent", seen |-> <<>>]
Corrupt == [kind |-> "corrupt", seen |-> <<>>]
Stored(list) == [kind |-> "ok", seen |-> list]

\* set(state.get("seen", [])) for the state load_state returns
LoadedSeen(file) == IF file.kind = "ok" THEN Range(file.seen) ELSE {}

\* the file save_state writes for state["seen"] = list
save_state(list) == Stored(LastN(list, SeenCap))

----------------------------------------------------------------------------
(* fetch_all *)

MakeItem(e) ==
    [ key       |-> stable_key(e.link, e.title),
      published |-> norm_dt(e.published),
      tags      |-> auto_tag(e.hits) ]

\* key=lambda x: x["published"] or "0000"
SortKey(it) == IF it.published = Empty THEN Key0000 ELSE it.published

\* mutant: x goes before the items of its own date
InsertDescUnstable(sorted, x) ==
    LET n == Cardinality({i \in 1..Len(sorted) : SortKey(sorted[i]) > SortKey(x)})
    IN  SubSeq(sorted, 1, n) \o <<x>> \o SubSeq(sorted, n + 1, Len(sorted))

\* where a stable descending sort puts x in an already sorted list
InsertDesc(sorted, x) ==
    LET n == Cardinality({i \in 1..Len(sorted) : SortKey(sorted[i]) >= SortKey(x)})
    IN  SubSeq(sorted, 1, n) \o <<x>> \o SubSeq(sorted, n + 1, Len(sorted))

RECURSIVE SortFrom(_, _)
SortFrom(sorted, rest) ==
    IF rest = <<>> THEN sorted
    ELSE SortFrom(InsertDesc(sorted, Head(rest)), Tail(rest))

\* items.sort(key=..., reverse=True)
SortItems(xs) == SortFrom(<<>>, xs)

----------------------------------------------------------------------------
(* main: filtering *)

\* mutant: the list is not cut to 40
NewItemsUncut(its, seenSet) ==
    SelectSeq(its, LAMBDA it : it.key \notin seenSet)

\* [it for it in items if it["key"] not in seen][:40]
NewItems(its, seenSet) ==
    Take(SelectSeq(its, LAMBDA it : it.key \notin seenSet), MaxTotal)

KeysOf(its) == {its[i].key : i \in 1..Len(its)}

----------------------------------------------------------------------------
(* build_html_report *)

\* mutant: an item is filed under its first tag only
TagCopiesFirstTag(it, cat) ==
    IF it.tags[1] = cat THEN <<it>> ELSE <<>>

\* the appends one item makes to by_cat[cat]
TagCopies(it, cat) ==
    [i \in 1..Len(SelectSeq(it.tags, LAMBDA t : t = cat)) |-> it]

RECURSIVE ByCat(_, _)
ByCat(its, cat) ==
    IF its = <<>> THEN <<>>
    ELSE TagCopies(Head(its), cat) \o ByCat(Tail(its), cat)

\* the list rendered under category cat
Section(its, cat) == Take(ByCat(its, cat), MaxPerCategory)

build_html_report(its) ==
    [ count    |-> Len(its),
      sections |-> SelectSeq(
                     [i \in 1..Len(order) |->
                        [cat |-> order[i], items |-> Section(its, order[i])]],
                     LAMBDA s : s.items # <<>>) ]

----------------------------------------------------------------------------
(* What the feeds can return. *)

\* the feed URLs of rss_urls.txt
load_urls == <<"https://feeds.example/a", "https://feeds.example/b">>

SeqsUpTo(S, n) == UNION {[1..k -> S] : k \in 0..n}

\* feedparser.parse(url): entries, a result without entries, or an exception
FeedResults(pool, n) ==
    {[kind |-> "ok", entries |-> es] : es \in SeqsUpTo(pool, n)}
    \cup {[kind |-> "bozo", entries |-> <<>>], [kind |-> "raise", entries |-> <<>>]}

Links == 1..NumLinks

\* the articles of the multi-run specification: title, date and text fixed per link
Articles ==
    {[ link      |-> l,
       title     |-> l,
       published |-> IF l = 1 THEN RawMissing ELSE RawDate((l + 1) \div 2, TRUE, 0),
       hits      |-> IF l % 2 = 1 THEN {}
                     ELSE IF l = 2 THEN {"Regulation & Compliance", "Retail & Channel"}
                     ELSE {"Retail & Channel"} ]
     : l \in Links}

RawDates ==
    {RawMissing, RawGarbage, RawDate(2, FALSE, 0)}
    \cup {RawDate(t, TRUE, off) : t \in 2..3, off \in 0..1}

\* entries of two links that differ in their dates
DatePool ==
    {[link |-> l, title |-> l, published |-> d, hits |-> {}] : l \in {1, 2}, d \in RawDates}

HitSets ==
    { {}, {"Regulation & Compliance"}, {"Retail & Channel"},
      {"Regulation & Compliance", "Retail & Channel"},
      {"Retail & Channel", "Competition Watch"} }

\* entries of two links that differ in their texts
TagPool ==
    {[link |-> l, title |-> l, published |-> RawMissing, hits |-> h]
     : l \in {1, 2}, h \in HitSets}

----------------------------------------------------------------------------
(* The state machine. *)

Terminal == {"done", "sent", "failed"}

Init ==
    /\ stateFile = Absent
    /\ pc = "idle"
    /\ error = "none"
    /\ seen = {}
    /\ web = <<>>
    /\ items = <<>>
    /\ new_items = <<>>
    /\ outbox = <<>>
    /\ startFile = Absent
    /\ delivered = {}
    /\ addOrder = <<>>
    /\ runs = 0

StorableSets ==
    {S \in SUBSET {stable_key(e.link, e.title) : e \in Articles} : Cardinality(S) <= SeenCap}

\* one order of the keys of S; a run reads the stored list into a set
Ascending(S) == CHOOSE l \in Orderings(S) : \A i, j \in 1..Len(l) : i < j => l[i] < l[j]

\* a deployment found at the start of a run: no file, a damaged file, or a
\* list of at most SeenCap keys that earlier runs delivered and stored
InitRun ==
    /\ stateFile \in {Absent, Corrupt}
                     \cup {Stored(Ascending(S)) : S \in StorableSets}
    /\ pc = "idle"
    /\ error = "none"
    /\ seen = {}
    /\ web = <<>>
    /\ items = <<>>
    /\ new_items = <<>>
    /\ outbox = <<>>
    /\ startFile = stateFile
    /\ delivered = Range(stateFile.seen)
    /\ addOrder = stateFile.seen
    /\ runs = 0

\* mutant: load_state answers a corrupt file with the empty state
LoadStateLenient ==
    /\ pc = "idle"
    /\ runs < MaxRuns
    /\ runs' = runs + 1
    /\ startFile' = stateFile
    /\ pc' = "loaded"
    /\ seen' = LoadedSeen(stateFile)
    /\ UNCHANGED <<stateFile, error, web, items, new_items, outbox, delivered, addOrder>>

\* main, line 150-151: state = load_state(); seen = set(state.get("seen", []))
LoadState ==
    /\ pc = "idle"
    /\ runs < MaxRuns
    /\ runs' = runs + 1
    /\ startFile' = stateFile
    /\ IF stateFile.kind = "corrupt"
       THEN /\ pc' = "failed"
            /\ error' = "load_state"
            /\ seen' = seen
       ELSE /\ pc' = "loaded"
            /\ error' = error
            /\ seen' = LoadedSeen(stateFile)
    /\ UNCHANGED <<stateFile, web, items, new_items, outbox, delivered, addOrder>>

RECURSIVE Collect(_)
\* the items appended while looping over the feeds, in fetch order
Collect(feeds) ==
    IF feeds = <<>> THEN <<>>
    ELSE [i \in 1..Len(Head(feeds).entries) |-> MakeItem(Head(feeds).entries[i])]
         \o Collect(Tail(feeds))

\* fetch_all, line 65-79: one pass of the loop over the URLs; an exception of
\* feedparser.parse leaves fetch_all and main
FetchFeed(pool) ==
    /\ pc = "loaded"
    /\ Len(web) < Len(load_urls)
    /\ \E r \in FeedResults(pool, MaxEntries - Len(Collect(web))) :
        /\ web' = Append(web, r)
        /\ IF r.kind = "raise"
           THEN /\ pc' = "failed"
                /\ error' = "fetch_all"
           ELSE /\ pc' = pc
                /\ error' = error
    /\ UNCHANGED <<runs, stateFile, seen, items, new_items, outbox, startFile,
                   delivered, addOrder>>

\* fetch_all, line 80-81, and main, line 153: items = fetch_all()
FetchReturn ==
    /\ pc = "loaded"
    /\ Len(web) = Len(load_urls)
    /\ items' = SortItems(Collect(web))
    /\ pc' = "fetched"
    /\ UNCHANGED <<runs, stateFile, error, seen, web, new_items, outbox, startFile,
                   delivered, addOrder>>

RECURSIVE Without(_, _)
Without(s, x) ==
    IF s = <<>> THEN <<>>
    ELSE IF Head(s) = x THEN Without(Tail(s), x)
    ELSE <<Head(s)>> \o Without(Tail(s), x)

RECURSIVE Added(_, _, _)
\* the addition order after the loop `for it in new_items: seen.add(it["key"])`
Added(log, its, seenSet) ==
    IF its = <<>> THEN log
    ELSE IF Head(its).key \in seenSet THEN Added(log, Tail(its), seenSet)
    ELSE Added(Append(Without(log, Head(its).key), Head(its).key), Tail(its),
               seenSet \cup {Head(its).key})

\* main, line 154-160: filter, record the keys, save_state
FilterAndSave ==
    /\ pc = "fetched"
    /\ LET ni == NewItems(items, seen)
           s2 == seen \cup KeysOf(ni)
       IN  /\ new_items' = ni
           /\ seen' = s2
           /\ \E file \in {save_state(list) : list \in Orderings(s2)} : stateFile' = file
           /\ addOrder' = Added(addOrder, ni, seen)
    /\ web' = <<>>
    /\ pc' = "saved"
    /\ UNCHANGED <<runs, error, items, outbox, startFile, delivered>>

\* main, line 162-164
NoNewItems ==
    /\ pc = "saved"
    /\ new_items = <<>>
    /\ pc' = "done"
    /\ UNCHANGED <<runs, stateFile, error, seen, web, items, new_items, outbox,
                   startFile, delivered, addOrder>>

\* main, line 166-169, the transport accepting the message
SendEmailOk ==
    /\ pc = "saved"
    /\ new_items # <<>>
    /\ outbox' = Append(outbox, build_html_report(new_items))
    /\ delivered' = delivered \cup KeysOf(new_items)
    /\ pc' = "sent"
    /\ UNCHANGED <<runs, stateFile, error, seen, web, items, new_items, startFile, addOrder>>

\* main, line 166-168, send_email raising
SendEmailFail ==
    /\ pc = "saved"
    /\ new_items # <<>>
    /\ outbox' = Append(outbox, build_html_report(new_items))
    /\ pc' = "failed"
    /\ error' = "send_email"
    /\ UNCHANGED <<runs, stateFile, seen, web, items, new_items, startFile, delivered, addOrder>>

\* the process ends; the next scheduled run starts from the state file alone
Exit ==
    /\ pc \in Terminal
    /\ pc' = "idle"
    /\ error' = "none"
    /\ seen' = {}
    /\ web' = <<>>
    /\ items' = <<>>
    /\ new_items' = <<>>
    /\ outbox' = <<>>
    /\ startFile' = stateFile
    /\ UNCHANGED <<runs, stateFile, delivered, addOrder>>

Next ==
    \/ LoadState
    \/ FetchFeed(Articles)
    \/ FetchReturn
    \/ FilterAndSave
    \/ NoNewItems
    \/ SendEmailOk
    \/ SendEmailFail
    \/ Exit

Spec == Init /\ [][Next]_vars

\* one run over feeds whose entries differ in their dates
FetchNext ==
    \/ LoadState
    \/ FetchFeed(DatePool)
    \/ FetchReturn

FetchSpec == Init /\ [][FetchNext]_vars

\* one run over feeds whose entries differ in their texts
BuildNext ==
    \/ LoadState
    \/ FetchFeed(TagPool)
    \/ FetchReturn
    \/ FilterAndSave
    \/ NoNewItems
    \/ SendEmailOk
    \/ SendEmailFail

BuildSpec == Init /\ [][BuildNext]_vars

\* one run from any deployment
RunNext ==
    \/ LoadState
    \/ FetchFeed(Articles)
    \/ FetchReturn
    \/ FilterAndSave
    \/ NoNewItems
    \/ SendEmailOk
    \/ SendEmailFail

RunSpec == InitRun /\ [][RunNext]_vars

----------------------------------------------------------------------------
(* Properties. *)

\* main has written the state file in this run
Persisted ==
    \/ pc \in {"saved", "done", "sent"}
    \/ pc = "failed" /\ error = "send_email"

\* send_email has been called in this run
Mailed ==
    \/ pc = "sent"
    \/ pc = "failed" /\ error = "send_email"

StoredKeys == Range(stateFile.seen)

\* C1: the persisted seen list never holds more than 2000 keys, and a key is
\* missing from it only if at least 2000 keys were added after it (the keys
\* kept are the most recently added ones).
C1_BoundedMostRecent ==
    stateFile.kind = "ok" =>
        /\ Len(stateFile.seen) <= SeenCap
        /\ \A i \in 1..Len(addOrder) :
              addOrder[i] \notin StoredKeys => Len(addOrder) - i >= SeenCap

\* C2: once a run has filtered the fetched items and persisted its new keys, a
\* second run over the same fetched items with the persisted state finds no
\* new item.
C2_IdempotentDedup ==
    Persisted => NewItems(items, LoadedSeen(stateFile)) = <<>>

\* C3: outside the step between save_state and send_email, every key of the
\* state file belongs to an item of a digest the mail transport accepted, also
\* after a run whose send_email raised.
C3_OnlyDeliveredKeys ==
    pc # "saved" => StoredKeys \subseteq delivered

RECURSIVE FirstUnseen(_, _, _)
\* the first n items of its whose key is not in seenSet, in order
FirstUnseen(its, seenSet, n) ==
    IF its = <<>> \/ n = 0 THEN <<>>
    ELSE IF Head(its).key \in seenSet THEN FirstUnseen(Tail(its), seenSet, n)
    ELSE <<Head(its)>> \o FirstUnseen(Tail(its), seenSet, n - 1)

Rendered(doc) == UNION {Range(doc.sections[k].items) : k \in 1..Len(doc.sections)}

Surviving ==
    Collect(SelectSeq(web, LAMBDA r : r.kind = "ok"))

\* number of occurrences of x in s
Count(s, x) == Cardinality({i \in 1..Len(s) : s[i] = x})

\* C5: a feed whose fetch fails, also by raising, does not abort the run, and
\* every entry of every other feed is still collected.
C5_SourceIsolation ==
    /\ error # "fetch_all"
    /\ pc = "fetched" =>
          \A x \in Range(Surviving) \cup Range(items) :
              Count(items, x) = Count(Surviving, x)

\* a is dated later than b, an item without a date being older than any dated one
Newer(a, b) ==
    \/ a.published # Empty /\ b.published = Empty
    \/ a.published # Empty /\ b.published # Empty /\ a.published > b.published

SameDate(s, p) == SelectSeq(s, LAMBDA it : it.published = p)

\* C6: fetch_all returns the collected items ordered by published descending,
\* the items without a date last, and the items of equal published (the
\* undated ones too) in their fetch order.
C6_StableDescendingSort ==
    pc = "fetched" =>
        /\ Len(items) = Len(Collect(web))
        /\ \A i, j \in 1..Len(items) : i < j => ~Newer(items[j], items[i])
        /\ \A x \in Range(Collect(web)) :
              SameDate(items, x.published) = SameDate(Collect(web), x.published)

\* C6 witness: the sort moved a dated item before an undated one, and returned
\* two different items of equal published
C6_Witness ==
    /\ pc = "fetched"
    /\ \E i, j \in 1..Len(Collect(web)) :
          /\ i < j
          /\ Collect(web)[i].published = Empty
          /\ Collect(web)[j].published # Empty
    /\ \E i, j \in 1..Len(items) :
          /\ items[i] # items[j]
          /\ items[i].published = items[j].published

\* the items of its that carry the tag cat, in order
Tagged(its, cat) == SelectSeq(its, LAMBDA it : cat \in Range(it.tags))

SectionsOf(doc, cat) == SelectSeq(doc.sections, LAMBDA sec : sec.cat = cat)

C8_LoadState ==
    /\ startFile.kind = "absent" /\ pc # "idle" =>
          /\ error # "load_state"
          /\ pc = "loaded" => seen = {}
    /\ startFile.kind = "corrupt" /\ pc # "idle" =>
          /\ pc = "failed"
          /\ error = "load_state"
          /\ web = <<>>
          /\ items = <<>>
          /\ outbox = <<>>
          /\ stateFile = startFile

\* C8 witness: a run has failed on a corrupt state file
C8_Witness ==
    /\ pc = "failed"
    /\ error = "load_state"
    /\ stateFile = Corrupt

\* C9: in a run that sends a digest, every item whose key the run added to the
\* seen state is rendered in a section, and the header counts the distinct
\* items rendered.
C9_NoSilentLoss ==
    Mailed =>
        /\ \A i \in 1..Len(new_items) : new_items[i] \in Rendered(outbox[1])
        /\ outbox[1].count = Cardinality(Rendered(outbox[1]))

\* C10: the new items of a run never hold two items with the same key.
C10_NoDuplicateKeys ==
    \A i, j \in 1..Len(new_items) :
        new_items[i].key = new_items[j].key => i = j

====
